---------------------------- MODULE Spec2Model ----------------------------
(***************************************************************************)
(* The parking reservation ledger of app.py: the in-memory map `data`, the *)
(* primary store data.json, the backup backup.json, the action log         *)
(* actions.json and the Flask session, driven by the request handlers      *)
(* home, login, logout, add, book, delete, admin and debug; and the        *)
(* helpers of utils.py, get_parking_spots and log_action, with CONFIG and  *)
(* the text file log.txt.                                                  *)
(*                                                                         *)
(* Spec     : one request at a time, each handler one action.              *)
(* SpecUtils: calls of the helpers of utils.py by a caller that keeps the  *)
(*            list get_parking_spots returned.                             *)
(* SpecConc : NumProcs request threads, each handler cut at its calls      *)
(*            (load_data, the map assignment, open, json.dump, backup).    *)
(***************************************************************************)
EXTENDS Integers, Sequences, FiniteSets, TLC

VARIABLES
    data,      \* app.data: the in-memory map spot -> {"n": name, "d": date}
    file,      \* the primary store file_path = "data.json"
    backup,    \* backup_file = "backup.json"
    log,       \* log_file = "actions.json", one record per line
    session,   \* session.get("user") of the client
    last,      \* the last request served under Spec and its response
    pc,        \* SpecConc: where each request thread stands
    rq,        \* SpecConc: the request each thread serves and its response
    nfail,     \* how many storage calls have failed so far
    utl        \* utils.py: CONFIG["spots"], log.txt and the last helper call

vars == <<data, file, backup, log, session, last, pc, rq, nfail, utl>>

-----------------------------------------------------------------------------
(* Bounds *)

MaxLog   == 2     \* cap on the lines of actions.json
NumProcs == 2     \* request threads of SpecConc
MaxCalls == 3     \* cap on the log_action calls that wrote to log.txt
MaxAppend == 1    \* cap on the appends of a caller to the returned list
MaxFail  == 1     \* cap on the storage calls that fail in one run

-----------------------------------------------------------------------------
(* Constants of app.py *)

spots == <<"A1", "A2", "A3", "B1", "B2", "B3", "C1", "C2">>

users == [u \in {"admin", "user"} |-> IF u = "admin" THEN "admin" ELSE "pass"]

\* Python's None: request.args.get("spot") without the parameter, and
\* session.get("user") without a user.
None == "<None>"

Catalog == {spots[i] : i \in 1..Len(spots)}

\* What a request can carry as its spot: catalog spots, an unknown
\* identifier, and (for the query-string routes) no parameter at all.
NamedSpots  == {spots[1], spots[2]}
FormSpots   == NamedSpots \cup {"INVALID"}
QuerySpots  == FormSpots \cup {None}
Names       == {"Alice"}
Dates       == {"2025-01-01"}
Today       == "today"      \* str(datetime.now().date())
UserInputs  == {"admin", "user", "guest"}
PassInputs  == {"admin", "pass"}
Procs       == 1..NumProcs

\* A file on disk: missing, not parseable (empty after the truncating open,
\* or cut short by a failed write), or a JSON object.
EmptyMap == <<>>
Absent   == [st |-> "absent", obj |-> EmptyMap]
Torn     == [st |-> "torn",   obj |-> EmptyMap]
Json(o)  == [st |-> "json",   obj |-> o]

\* Outcomes of the storage calls of one request.
WriteFaults  == {"ok", "open", "write"}
BackupFaults == {"ok", "open", "write", "log"}

NA == "-"

\* The storage calls that failed among those of one request.
Failed(fault, bfault) ==
    (IF fault \in {"open", "write"} THEN 1 ELSE 0)
    + (IF bfault \in {"open", "write", "log"} THEN 1 ELSE 0)

-----------------------------------------------------------------------------
(* json.dump / json.load *)

\* The JSON encoder writes a None key as "null"; str keys are kept.
KeyToJson(k) == IF k = None THEN "null" ELSE k

\* json.dump(data, f): the object written.  A dict holding both None and
\* "null" writes the member "null" twice; None is always the later insertion
\* (a "null" key only comes from load_data, which rebinds the dict), and
\* json.load keeps the last member.
Dump(d) ==
    [j \in {KeyToJson(k) : k \in DOMAIN d} |->
        IF j = "null" /\ None \in DOMAIN d THEN d[None] ELSE d[j]]

\* load_data with `except: pass` in place of `except: data = {}`.
LoadDataKeepsOnError(d, f) ==
    IF f.st = "json" THEN f.obj ELSE d

\* load_data: a missing file leaves data alone, an unparseable one empties
\* it (bare except), a JSON object replaces it.
LoadData(d, f) ==
    IF f.st = "absent" THEN d
    ELSE IF f.st = "torn" THEN EmptyMap
    ELSE f.obj

\* open(path, "w"): fails and leaves the file alone, or truncates it.
OpenW(f, fault) == IF fault = "open" THEN f ELSE Torn

\* save_data: open(file_path, "w") then json.dump, every exception swallowed.
SaveData(d, f, fault) ==
    IF fault = "open" THEN f
    ELSE IF fault = "write" THEN Torn
    ELSE Json(Dump(d))

\* save_backup, the backup file: written first, inside the same try.
BackupFile(d, b, fault) ==
    IF fault = "open" THEN b
    ELSE IF fault = "write" THEN Torn
    ELSE Json(Dump(d))

\* save_backup opening the log with mode "w" in place of "a": the open
\* truncates the log, a failed write leaves it empty.
BackupLogRewrites(lg, fault) ==
    IF fault = "ok" THEN <<[action |-> "backup"]>>
    ELSE IF fault = "log" THEN <<>>
    ELSE lg

\* save_backup with the log append in a try of its own, before the backup
\* write: the line is appended whether or not the backup write succeeds.
BackupLogFirst(lg, fault) ==
    IF fault = "log" THEN lg ELSE Append(lg, [action |-> "backup"])

\* save_backup, the log: one {"action": "backup", "time": ...} line, appended
\* only when the backup write before it raised nothing.
BackupLog(lg, fault) ==
    IF fault = "ok" THEN Append(lg, [action |-> "backup"]) ELSE lg

\* data[spot] = {"n": name, "d": date}
Assign(d, spot, name, date) ==
    [k \in DOMAIN d \cup {spot} |->
        IF k = spot THEN [n |-> name, d |-> date] ELSE d[k]]

\* delete with `except: data.clear()` in place of `except: pass`.
DelClearsOnMiss(d, spot) ==
    IF spot \in DOMAIN d THEN [k \in DOMAIN d \ {spot} |-> d[k]] ELSE EmptyMap

\* try: del data[spot]  except: pass
Del(d, spot) == [k \in DOMAIN d \ {spot} |-> d[k]]

-----------------------------------------------------------------------------
(* utils.py *)

\* CONFIG of utils.py.
CONFIG ==
    [spots |-> <<"A1", "A2", "A3", "B1", "B2", "B3">>, admin_pass |-> "admin123"]

\* The line break, and the actions a caller logs: texts as sequences of
\* characters, one of them with a line break inside.
LF == "\n"
Actions == {<<"a">>, <<"b">>, <<"a", LF, "b">>}

\* What open("log.txt", "a") may meet.
LogFaults == {"ok", "open"}

\* f"{action}\n"
Format(action) == action \o <<LF>>

\* log_action opening log.txt with "w": the write replaces the text.
LogWriteTruncates(txt, action) == Format(action)

\* open("log.txt", "a") and f.write: the formatted action goes after the text
\* the file holds.
LogWrite(txt, action) == txt \o Format(action)

\* utils.py after import: CONFIG["spots"] as configured, no list handed out,
\* log.txt empty, no helper called yet.
UtilsInit ==
    [spots |-> CONFIG.spots, held |-> FALSE, ret |-> <<>>,
     txt |-> <<>>, calls |-> <<>>, call |-> "none", raised |-> "none"]

-----------------------------------------------------------------------------
(* Requests served one at a time *)

\* A request: its route and arguments, what its storage calls met, the
\* status of its response (0 while there is none) and the spot entries of the
\* page it rendered (none unless it is a home page that lists them).
Req(op, spot, name, date, fault, bfault, resp) ==
    [op |-> op, spot |-> spot, name |-> name, date |-> date,
     fault |-> fault, bfault |-> bfault, resp |-> resp, again |-> FALSE,
     page |-> <<>>]

\* One <li> of html1: the spot, and its occupant and date when `s in data`.
Entry(d, s) ==
    IF s \in DOMAIN d
    THEN [spot |-> s, reserved |-> TRUE, n |-> d[s].n, d |-> d[s].d]
    ELSE [spot |-> s, reserved |-> FALSE, n |-> NA, d |-> NA]

\* html1 with `{% for s in data %}` in place of `{% for s in spots %}`: one
\* entry per key of the map.
html1OverMap(d, sess) ==
    IF sess = None THEN <<>>
    ELSE SelectSeq([i \in 1..Len(spots) |-> Entry(d, spots[i])],
                   LAMBDA e : e.reserved)

\* The spot entries of html1: none while `not session.get('user')` (the page
\* is the login form), else one per spot of `spots`, in that order.
html1(d, sess) ==
    IF sess = None THEN <<>>
    ELSE [i \in 1..Len(spots) |-> Entry(d, spots[i])]

\* The request as recorded once served: `again` tells that it names the route
\* and the spot of the request served just before it.
Served(r) ==
    [r EXCEPT !.again = (r.spot # NA /\ last.op = r.op /\ last.spot = r.spot)]

Init ==
    /\ data = EmptyMap
    /\ file = Absent
    /\ backup = Absent
    /\ log = <<>>
    /\ session = None
    /\ last = Req("start", NA, NA, NA, NA, NA, 0)
    /\ pc = [p \in Procs |-> "idle"]
    /\ rq = [p \in Procs |-> Req("start", NA, NA, NA, NA, NA, 0)]
    /\ nfail = 0
    /\ utl = UtilsInit

\* home calling save_data after its load_data: the page view writes the store.
homeSaves ==
    /\ data' = LoadData(data, file)
    /\ file' = SaveData(LoadData(data, file), file, "ok")
    /\ last' = [Served(Req("home", NA, NA, NA, NA, NA, 200))
                EXCEPT !.page = html1(data', session)]
    /\ UNCHANGED <<backup, log, session, pc, rq, nfail, utl>>

\* home: load_data, render the page.
home ==
    /\ data' = LoadData(data, file)
    /\ last' = [Served(Req("home", NA, NA, NA, NA, NA, 200))
                EXCEPT !.page = html1(data', session)]
    /\ UNCHANGED <<file, backup, log, session, pc, rq, nfail, utl>>

\* login comparing the user name only: `if u in users` without the password.
loginAnyPassword ==
    \E u \in UserInputs, p \in PassInputs :
        /\ session' = IF u \in DOMAIN users THEN u ELSE session
        /\ last' = Served(Req("login", NA, u, p, NA, NA, 302))
        /\ UNCHANGED <<data, file, backup, log, pc, rq, nfail, utl>>

\* logout with session.pop of another key: the user stays in the session.
logoutKeepsUser ==
    /\ session' = session
    /\ last' = Served(Req("logout", NA, NA, NA, NA, NA, 302))
    /\ UNCHANGED <<data, file, backup, log, pc, rq, nfail, utl>>

\* login with `else: session.pop("user", None)`: a failed login logs out.
loginFailureLogsOut ==
    \E u \in UserInputs, p \in PassInputs :
        /\ session' = IF u \in DOMAIN users /\ users[u] = p THEN u ELSE None
        /\ last' = Served(Req("login", NA, u, p, NA, NA, 302))
        /\ UNCHANGED <<data, file, backup, log, pc, rq, nfail, utl>>

\* login: the session user is set only when the credentials match.
login ==
    \E u \in UserInputs, p \in PassInputs :
        /\ session' = IF u \in DOMAIN users /\ users[u] = p THEN u ELSE session
        /\ last' = Served(Req("login", NA, u, p, NA, NA, 302))
        /\ UNCHANGED <<data, file, backup, log, pc, rq, nfail, utl>>

logout ==
    /\ session' = None
    /\ last' = Served(Req("logout", NA, NA, NA, NA, NA, 302))
    /\ UNCHANGED <<data, file, backup, log, pc, rq, nfail, utl>>

\* add with save_backup lacking its try/except: an exception of the backup
\* write or of the log append reaches the caller as a 500.
addBackupRaises(WF, BF) ==
    \E spot \in FormSpots, name \in Names, date \in Dates,
       fault \in WF, bfault \in BF :
        /\ Len(log) < MaxLog
        /\ nfail + Failed(fault, bfault) <= MaxFail
        /\ nfail' = nfail + Failed(fault, bfault)
        /\ LET d == Assign(LoadData(data, file), spot, name, date) IN
            /\ data' = d
            /\ file' = SaveData(d, file, fault)
            /\ backup' = BackupFile(d, backup, bfault)
            /\ log' = BackupLog(log, bfault)
        /\ last' = Served(Req("add", spot, name, date, fault, bfault,
                              IF bfault = "ok" THEN 302 ELSE 500))
        /\ UNCHANGED <<session, pc, rq, utl>>

\* add undoing its assignment and its write when the log append fails.
addLogFailureUndoes(WF, BF) ==
    \E spot \in FormSpots, name \in Names, date \in Dates,
       fault \in WF, bfault \in BF :
        /\ Len(log) < MaxLog
        /\ nfail + Failed(fault, bfault) <= MaxFail
        /\ nfail' = nfail + Failed(fault, bfault)
        /\ LET d == Assign(LoadData(data, file), spot, name, date) IN
            /\ data' = IF bfault = "log" THEN LoadData(data, file) ELSE d
            /\ file' = IF bfault = "log" THEN file ELSE SaveData(d, file, fault)
            /\ backup' = BackupFile(d, backup, bfault)
            /\ log' = BackupLog(log, bfault)
        /\ last' = Served(Req("add", spot, name, date, fault, bfault, 302))
        /\ UNCHANGED <<session, pc, rq, utl>>

\* add with save_data lacking its try/except: an exception of open or of
\* json.dump ends the request with a 500 before save_backup is called.
addSaveRaises(WF, BF) ==
    \E spot \in FormSpots, name \in Names, date \in Dates,
       fault \in WF, bfault \in BF :
        /\ Len(log) < MaxLog
        /\ nfail + Failed(fault, bfault) <= MaxFail
        /\ nfail' = nfail + Failed(fault, bfault)
        /\ LET d == Assign(LoadData(data, file), spot, name, date) IN
            /\ data' = d
            /\ file' = SaveData(d, file, fault)
            /\ backup' = IF fault = "ok" THEN BackupFile(d, backup, bfault)
                         ELSE backup
            /\ log' = IF fault = "ok" THEN BackupLog(log, bfault) ELSE log
        /\ last' = Served(Req("add", spot, name, date, fault, bfault,
                              IF fault = "ok" THEN 302 ELSE 500))
        /\ UNCHANGED <<session, pc, rq, utl>>

\* add: load_data, load_backup (result dropped), the assignment, save_data,
\* save_backup, redirect.  WF and BF are the outcomes the storage may take.
add(WF, BF) ==
    \E spot \in FormSpots, name \in Names, date \in Dates,
       fault \in WF, bfault \in BF :
        /\ Len(log) < MaxLog
        /\ nfail + Failed(fault, bfault) <= MaxFail
        /\ nfail' = nfail + Failed(fault, bfault)
        /\ LET d == Assign(LoadData(data, file), spot, name, date) IN
            /\ data' = d
            /\ file' = SaveData(d, file, fault)
            /\ backup' = BackupFile(d, backup, bfault)
            /\ log' = BackupLog(log, bfault)
        /\ last' = Served(Req("add", spot, name, date, fault, bfault, 302))
        /\ UNCHANGED <<session, pc, rq, utl>>

\* add reading its form after load_data and the write of the store: a request
\* without its fields rewrites the store from the reloaded map before the 400.
addLoadsBeforeForm ==
    /\ data' = LoadData(data, file)
    /\ file' = SaveData(LoadData(data, file), file, "ok")
    /\ last' = Served(Req("add", NA, NA, NA, NA, NA, 400))
    /\ UNCHANGED <<backup, log, session, pc, rq, nfail, utl>>

\* add with a form field missing: request.form[...] raises before load_data.
addBadRequest ==
    /\ last' = Served(Req("add", NA, NA, NA, NA, NA, 400))
    /\ UNCHANGED <<data, file, backup, log, session, pc, rq, nfail, utl>>

\* book behind a login check: without a session user it redirects and
\* leaves the map and the store alone.
bookNeedsLogin(WF) ==
    \E spot \in QuerySpots, fault \in WF :
        /\ nfail + Failed(fault, NA) <= MaxFail
        /\ nfail' = nfail + Failed(fault, NA)
        /\ LET d == Assign(LoadData(data, file), spot, "Quick Booking", Today) IN
            /\ data' = IF session = None THEN data ELSE d
            /\ file' = IF session = None THEN file ELSE SaveData(d, file, fault)
        /\ last' = Served(Req("book", spot, "Quick Booking", Today, fault, NA, 302))
        /\ UNCHANGED <<backup, log, session, pc, rq, utl>>

\* book: load_data, the assignment, save_data, redirect.
book(WF) ==
    \E spot \in QuerySpots, fault \in WF :
        /\ nfail + Failed(fault, NA) <= MaxFail
        /\ nfail' = nfail + Failed(fault, NA)
        /\ LET d == Assign(LoadData(data, file), spot, "Quick Booking", Today) IN
            /\ data' = d
            /\ file' = SaveData(d, file, fault)
        /\ last' = Served(Req("book", spot, "Quick Booking", Today, fault, NA, 302))
        /\ UNCHANGED <<backup, log, session, pc, rq, utl>>

\* delete: load_data, del data[spot] (a KeyError is swallowed), save_data.
delete(WF) ==
    \E spot \in QuerySpots, fault \in WF :
        /\ nfail + Failed(fault, NA) <= MaxFail
        /\ nfail' = nfail + Failed(fault, NA)
        /\ LET d == Del(LoadData(data, file), spot) IN
            /\ data' = d
            /\ file' = SaveData(d, file, fault)
        /\ last' = Served(Req("delete", spot, NA, NA, fault, NA, 302))
        /\ UNCHANGED <<backup, log, session, pc, rq, utl>>

\* admin: load_data, show the map.
admin ==
    /\ data' = LoadData(data, file)
    /\ last' = Served(Req("admin", NA, NA, NA, NA, NA, 200))
    /\ UNCHANGED <<file, backup, log, session, pc, rq, nfail, utl>>

\* debug: shows users, data and session; loads nothing.
debug ==
    /\ last' = Served(Req("debug", NA, NA, NA, NA, NA, 200))
    /\ UNCHANGED <<data, file, backup, log, session, pc, rq, nfail, utl>>

\* Spec: every handler, the storage calls all succeeding.
Next ==
    \/ home
    \/ login
    \/ logout
    \/ add({"ok"}, {"ok"})
    \/ addBadRequest
    \/ book({"ok"})
    \/ delete({"ok"})
    \/ admin
    \/ debug

Spec == Init /\ [][Next]_vars

\* SpecFault: the handlers that touch the storage, each storage call free to
\* fail, up to MaxFail failures in a run.
NextFault ==
    \/ home
    \/ add(WriteFaults, BackupFaults)
    \/ book(WriteFaults)
    \/ delete(WriteFaults)

SpecFault == Init /\ [][NextFault]_vars

-----------------------------------------------------------------------------
(* Requests served by concurrent threads (app.run serves each request on   *)
(* its own thread; the handlers take no lock).  Each thread serves one      *)
(* request; a step is one call of the handler.  load_data is taken as one  *)
(* step (read and rebind together) and json.dump as one step that writes    *)
(* the map as it is when the step runs; the threads can interleave more     *)
(* finely than that, never less.                                            *)

ConcOps == {"add", "book", "delete", "home"}

\* The store an earlier run left behind: none, or one reservation.
StoresAtStart ==
    {Absent, Json(Dump(Assign(EmptyMap, spots[1], "Alice", "2025-01-01")))}

\* Module load (data = {}) and load_data() of __main__.
InitConc ==
    /\ \E f \in StoresAtStart :
        /\ file = f
        /\ data = LoadData(EmptyMap, f)
    /\ backup = Absent
    /\ log = <<>>
    /\ session = None
    /\ last = Req("start", NA, NA, NA, NA, NA, 0)
    /\ pc = [p \in Procs |-> "idle"]
    /\ rq = [p \in Procs |-> Req("start", NA, NA, NA, NA, NA, 0)]
    /\ nfail = 0
    /\ utl = UtilsInit

\* The adds that have not yet written their log line.
AddsInFlight ==
    Cardinality({q \in Procs : rq[q].op = "add" /\ pc[q] \notin {"idle", "done"}})

\* A request arrives: the arguments are read from the form or query string.
Begin(p) ==
    /\ pc[p] = "idle"
    /\ \E op \in ConcOps, spot \in NamedSpots, name \in Names, date \in Dates :
        /\ op = "add" => Len(log) + AddsInFlight < MaxLog
        /\ rq' = [rq EXCEPT ![p] =
                    IF op = "add" THEN Req(op, spot, name, date, NA, NA, 0)
                    ELSE IF op = "book"
                        THEN Req(op, spot, "Quick Booking", Today, NA, NA, 0)
                    ELSE IF op = "delete" THEN Req(op, spot, NA, NA, NA, NA, 0)
                    ELSE Req(op, NA, NA, NA, NA, NA, 0)]
    /\ pc' = [pc EXCEPT ![p] = "load"]
    /\ UNCHANGED <<data, file, backup, log, session, last, nfail, utl>>

\* load_data()
Load(p) ==
    /\ pc[p] = "load"
    /\ data' = LoadData(data, file)
    /\ pc' = [pc EXCEPT ![p] = IF rq[p].op = "home" THEN "respond" ELSE "assign"]
    /\ UNCHANGED <<file, backup, log, session, last, rq, nfail, utl>>

\* data[spot] = {...}   or   del data[spot]
Mutate(p) ==
    /\ pc[p] = "assign"
    /\ data' = IF rq[p].op = "delete" THEN Del(data, rq[p].spot)
               ELSE Assign(data, rq[p].spot, rq[p].name, rq[p].date)
    /\ pc' = [pc EXCEPT ![p] = "open"]
    /\ UNCHANGED <<file, backup, log, session, last, rq, nfail, utl>>

\* save_data: open(file_path, "w") truncates the file
SaveOpen(p) ==
    /\ pc[p] = "open"
    /\ file' = OpenW(file, "ok")
    /\ pc' = [pc EXCEPT ![p] = "dump"]
    /\ UNCHANGED <<data, backup, log, session, last, rq, nfail, utl>>

\* save_data: json.dump(data, f) and the close
SaveDump(p) ==
    /\ pc[p] = "dump"
    /\ file' = SaveData(data, file, "ok")
    /\ pc' = [pc EXCEPT ![p] = IF rq[p].op = "add" THEN "backup" ELSE "respond"]
    /\ UNCHANGED <<data, backup, log, session, last, rq, nfail, utl>>

\* save_backup()
Backup(p) ==
    /\ pc[p] = "backup"
    /\ backup' = BackupFile(data, backup, "ok")
    /\ log' = BackupLog(log, "ok")
    /\ pc' = [pc EXCEPT ![p] = "respond"]
    /\ UNCHANGED <<data, file, session, last, rq, nfail, utl>>

\* return redirect("/")   or   return render_template_string(...)
Respond(p) ==
    /\ pc[p] = "respond"
    /\ rq' = [rq EXCEPT ![p].resp = IF rq[p].op = "home" THEN 200 ELSE 302,
                        ![p].page = IF rq[p].op = "home"
                                    THEN html1(data, session) ELSE <<>>]
    /\ pc' = [pc EXCEPT ![p] = "done"]
    /\ UNCHANGED <<data, file, backup, log, session, last, nfail, utl>>

NextConc ==
    \E p \in Procs :
        \/ Begin(p)
        \/ Load(p)
        \/ Mutate(p)
        \/ SaveOpen(p)
        \/ SaveDump(p)
        \/ Backup(p)
        \/ Respond(p)

SpecConc == InitConc /\ [][NextConc]_vars

-----------------------------------------------------------------------------
(* The helpers of utils.py *)

\* get_parking_spots: returns CONFIG["spots"], the list object itself, which
\* the caller holds from then on; `ret` is the list as returned.
get_parking_spots ==
    /\ utl' = [utl EXCEPT !.ret = utl.spots, !.held = TRUE,
                          !.call = "get_parking_spots", !.raised = "none"]
    /\ UNCHANGED <<data, file, backup, log, session, last, pc, rq, nfail>>

\* The caller appends to the list it was returned: that list is
\* CONFIG["spots"].
append_to_returned ==
    /\ utl.held
    /\ Len(utl.spots) < Len(CONFIG.spots) + MaxAppend
    /\ utl' = [utl EXCEPT !.spots = Append(@, "NEW_SPOT"),
                          !.call = "append", !.raised = "none"]
    /\ UNCHANGED <<data, file, backup, log, session, last, pc, rq, nfail>>

\* log_action: open log.txt for append and write the formatted action; no
\* try/except, so a refused open raises to the caller with nothing written.
\* `calls` keeps the actions of the calls that returned.
log_action ==
    \E action \in Actions, fault \in LogFaults :
        /\ Len(utl.calls) < MaxCalls
        /\ utl' = IF fault = "open"
                  THEN [utl EXCEPT !.call = "log_action",
                                   !.raised = "PermissionError"]
                  ELSE [utl EXCEPT !.txt = LogWrite(@, action),
                                   !.calls = Append(@, action),
                                   !.call = "log_action", !.raised = "none"]
        /\ UNCHANGED <<data, file, backup, log, session, last, pc, rq, nfail>>

NextUtils ==
    \/ get_parking_spots
    \/ append_to_returned
    \/ log_action

SpecUtils == Init /\ [][NextUtils]_vars

-----------------------------------------------------------------------------
(* Properties *)

Bookings == {"add", "book"}
Mutators == {"add", "book", "delete"}

\* A request of Spec or SpecFault that ran its handler body (no 400).
Ran(r) == r.op \in {"home", "add", "book", "delete", "admin"} /\ r.resp # 400

\* C1.  No double-booking: a booking (add or book) of a spot that the ledger
\* map already holds is rejected (it is not answered with the redirect of a
\* success) and the stored reservation keeps its occupant and date.
C1_NoDoubleBooking ==
    [][(/\ last'.op \in Bookings
        /\ last'.resp # 400
        /\ last'.spot \in DOMAIN data
        /\ last'.spot \in DOMAIN LoadData(data, file))
       => (/\ last'.resp # 302
           /\ last'.spot \in DOMAIN data'
           /\ data'[last'.spot] = data[last'.spot])]_vars

\* The spots no store at start holds.
FreeAtStart(s) == \A f \in StoresAtStart : s \notin DOMAIN LoadData(EmptyMap, f)

\* C2.  Of two concurrent bookings of the same free spot exactly one succeeds:
\* once both have responded, one response is the redirect of a success and
\* the other is not.
C2_ExactlyOneBooks ==
    \A p, q \in Procs :
        (/\ p # q
         /\ pc[p] = "done" /\ pc[q] = "done"
         /\ rq[p].op \in Bookings /\ rq[q].op \in Bookings
         /\ rq[p].spot = rq[q].spot
         /\ FreeAtStart(rq[p].spot))
        => ((rq[p].resp = 302) # (rq[q].resp = 302))

\* The thread p is the only one whose request changes the spot it names.
Alone(p) ==
    \A q \in Procs \ {p} : rq[q].op \in Mutators => rq[q].spot # rq[p].spot

\* What a map shows of the request r once r took effect.
Shows(m, r) ==
    IF r.op = "delete" THEN r.spot \notin DOMAIN m
    ELSE r.spot \in DOMAIN m /\ m[r.spot] = [n |-> r.name, d |-> r.date]

\* C3.  No lost update: when every thread has responded with success, the map
\* and the primary store show the effect of each add/book/delete on the spot
\* it alone changed.
C3_NoLostUpdate ==
    (\A p \in Procs : pc[p] = "done" /\ rq[p].resp \in {200, 302})
    => \A p \in Procs :
        (rq[p].op \in Mutators /\ Alone(p))
        => (/\ Shows(data, rq[p])
            /\ file.st = "json"
            /\ Shows(file.obj, rq[p]))

\* A thread is inside its section once it has loaded and until its last write.
InSection(p) == rq[p].op \in Mutators /\ pc[p] \in {"assign", "open", "dump", "backup"}

\* C4.  Mutual exclusion: at most one mutating request is inside its section
\* load -> mutate -> write the store -> backup.
C4_MutualExclusion ==
    Cardinality({p \in Procs : InSection(p)}) <= 1

\* C5.  Atomic commit: no load_data is ever about to read a primary store that
\* a write in progress has left truncated.
C5_AtomicCommit ==
    \A p \in Procs : pc[p] = "load" => file.st # "torn"

\* C6.  A failed write of the primary store during the booking of a free spot
\* is reported (no success response) and the spot is free in the map
\* afterwards.
C6_RollbackOnWriteFailure ==
    [][(/\ last'.op \in Bookings
        /\ last'.fault \in {"open", "write"}
        /\ last'.spot \notin DOMAIN LoadData(data, file))
       => (/\ last'.resp # 302
           /\ last'.spot \notin DOMAIN data')]_vars

\* C7.  A booking of a spot outside the catalog is rejected and every key of
\* the ledger map is a catalog spot.
C7_KeysInCatalog ==
    /\ (last.op \in Bookings /\ last.resp # 400 /\ last.spot \notin Catalog)
        => last.resp # 302
    /\ DOMAIN data \subseteq Catalog

C9_RoundTrip ==
    (last.op \in Mutators /\ last.resp = 302 /\ last.fault = "ok")
    => LoadData(data, file) = data

\* C10.  On a primary store that exists and does not parse, the load_data of
\* home (and of admin) leaves the map empty and the request completes.
C10_MalformedStoreLoadsEmpty ==
    [][(last'.op \in {"home", "admin"} /\ file.st = "torn")
       => (data' = EmptyMap /\ last'.resp = 200)]_vars

\* C10 witness: home has been served on a store that does not parse.
C10_Witness ==
    last.op = "home" /\ last.resp = 200 /\ file.st = "torn" /\ data = EmptyMap

\* C11.  On a missing primary store the load_data of home (and of admin)
\* leaves the map empty, whatever the map held before.
C11_MissingStoreLoadsEmpty ==
    [][(last'.op \in {"home", "admin"} /\ file.st = "absent")
       => data' = EmptyMap]_vars

\* What a request leaves for a reader to see of a failure: a response other
\* than the one of a success, or a line of the log that tells of an error.
Reported(r, lg) ==
    \/ r.resp \notin {200, 302}
    \/ \E i \in 1..Len(lg) : lg[i].action # "backup"

\* C12.  No error is silently discarded: a request that loaded a missing or
\* malformed store, or whose write of the primary store failed, leaves an
\* error outcome behind.
C12_NoSilentError ==
    [][(/\ Ran(last')
        /\ \/ file.st \in {"absent", "torn"}
           \/ last'.fault \in {"open", "write"})
       => Reported(last', log')]_vars

\* C13.  After every successful add, book and delete the backup holds the
\* ledger state just committed to the primary store.
C13_BackupIsLastCommit ==
    (/\ last.op \in Mutators
     /\ last.resp = 302
     /\ last.fault = "ok"
     /\ last.bfault \in {"ok", NA})
    => backup = file

\* C14.  A failed backup write does not fail or undo the add: the request
\* answers with its redirect and the map and the primary store hold the new
\* reservation.
C14_BackupFailureKeepsAdd ==
    (/\ last.op = "add"
     /\ last.bfault \in {"open", "write"}
     /\ last.fault = "ok")
    => (/\ last.resp = 302
        /\ Shows(data, last)
        /\ file.st = "json"
        /\ Shows(file.obj, last))

\* C14 witness: an add whose backup write failed has been served.
C14_Witness ==
    /\ last.op = "add" /\ last.bfault = "write" /\ last.fault = "ok"
    /\ last.resp = 302
    /\ backup.st = "torn"
    /\ last.spot \in DOMAIN data

\* C15.  Every accepted mutation appends exactly one audit record naming its
\* kind and its spot, and a rejected request appends nothing.
C15_AuditRecordPerMutation ==
    [][/\ (last'.op \in Bookings /\ last'.resp = 302)
            => log' = Append(log, [action |-> "book", spot |-> last'.spot])
       /\ (last'.op = "delete" /\ last'.resp = 302)
            => log' = Append(log, [action |-> "release", spot |-> last'.spot])
       /\ (last'.resp \notin {200, 302}) => log' = log]_vars

\* C16.  The audit trail is append-only: the log before a step is a prefix of
\* the log after it.
C16_LogAppendOnly ==
    [][/\ Len(log) <= Len(log')
       /\ SubSeq(log', 1, Len(log)) = log]_vars

\* C16 witness: the log has been appended to twice.
C16_Witness ==
    Len(log) >= 2 /\ last.op = "add" /\ last.bfault = "ok"

\* C17.  A failed append to the log does not fail or undo the add: the request
\* answers with its redirect and the reservation is in the map and in the
\* primary store.
C17_LogFailureKeepsAdd ==
    (last.op = "add" /\ last.bfault = "log" /\ last.fault = "ok")
    => (/\ last.resp = 302
        /\ last.spot \in DOMAIN data
        /\ data[last.spot] = [n |-> last.name, d |-> last.date]
        /\ file = Json(Dump(data)))

\* C17 witness: an add whose log append failed has been served; the backup
\* was written, the log was not.
C17_Witness ==
    /\ last.op = "add" /\ last.bfault = "log" /\ last.fault = "ok"
    /\ last.resp = 302
    /\ backup = Json(Dump(data))
    /\ log = <<>>

\* The catalog spots a map does not hold, by their place in the catalog.
FreeIndex(m) == {i \in 1..Len(spots) : spots[i] \notin DOMAIN m}

\* The first spot of the catalog that a map does not hold.
FirstFree(m) ==
    spots[CHOOSE i \in FreeIndex(m) : \A j \in FreeIndex(m) : i <= j]

\* C18.  Quick-book books the first unoccupied spot in catalog order and
\* changes no other spot; with every catalog spot occupied it fails and
\* changes nothing.
C18_QuickBookFirstFree ==
    [][(last'.op = "book")
       => LET m == LoadData(data, file) IN
           IF FreeIndex(m) = {}
           THEN last'.resp # 302 /\ data' = m
           ELSE /\ last'.resp = 302
                /\ data' = Assign(m, FirstFree(m), "Quick Booking", Today)]_vars

\* C19.  Named-spot mutations require privilege: an add or a delete issued
\* without a logged-in session is refused and leaves the map and the primary
\* store unchanged.
C19_Unauthorized ==
    [][(last'.op \in {"add", "delete"} /\ last'.resp # 400 /\ session = None)
       => (last'.resp # 302 /\ data' = data /\ file' = file)]_vars

\* C21.  A catalog spot becomes occupied only by a successful booking of that
\* spot: no other request (home, admin, a delete, a booking of another spot,
\* their load_data) makes a spot of the map occupied.
C21_OccupiedOnlyByBooking ==
    [][\A s \in Catalog :
        (s \notin DOMAIN data /\ s \in DOMAIN data')
        => (last'.op \in Bookings /\ last'.resp = 302 /\ last'.spot = s)]_vars


\* C22.  A request that is rejected (add without one of its form fields,
\* answered 400) is rejected before any mutation: the map, the primary store,
\* the backup and the audit log are all as they were.
C22_FailFast ==
    [][(last'.op = "add" /\ last'.resp = 400)
       => UNCHANGED <<data, file, backup, log>>]_vars

\* A rejected add served after reservations were committed to map, store,
\* backup and log.
C22_Witness ==
    /\ last.op = "add" /\ last.resp = 400
    /\ data # EmptyMap /\ file.st = "json" /\ file.obj # EmptyMap
    /\ backup.st = "json" /\ Len(log) > 0


\* C23.  A served add for spot s preserves every other reservation: every
\* spot t # s that was reserved in the map before is reserved afterwards with
\* the same occupant and date, in the map and in the primary store.  Stated
\* for an add whose own write of the store succeeds.
C23_AddPreservesOthers ==
    [][(last'.op = "add" /\ last'.resp = 302 /\ last'.fault = "ok")
       => \A t \in (DOMAIN data \cap Catalog) \ {last'.spot} :
            /\ t \in DOMAIN data' /\ data'[t] = data[t]
            /\ file'.st = "json"
            /\ t \in DOMAIN file'.obj /\ file'.obj[t] = data[t]]_vars


\* C24, as stated.  The listing of a served home page has exactly one entry
\* per catalog spot, in catalog order, reserved with occupant and date iff the
\* spot is a key of the map and free otherwise.
C24_ListingPerCatalogSpot ==
    last.op = "home" =>
        /\ Len(last.page) = Len(spots)
        /\ \A i \in 1..Len(spots) :
            /\ last.page[i].spot = spots[i]
            /\ last.page[i].reserved <=> spots[i] \in DOMAIN data
            /\ last.page[i].reserved =>
                /\ last.page[i].n = data[spots[i]].n
                /\ last.page[i].d = data[spots[i]].d

\* C24, amended.  The same listing, for a home page served to a session with
\* a user; without one the page is the login form and lists no spot.
C24_ListingWhenLoggedIn ==
    last.op = "home" =>
        IF session = None
        THEN last.page = <<>>
        ELSE /\ Len(last.page) = Len(spots)
             /\ \A i \in 1..Len(spots) :
                 /\ last.page[i].spot = spots[i]
                 /\ last.page[i].reserved <=> spots[i] \in DOMAIN data
                 /\ last.page[i].reserved =>
                     /\ last.page[i].n = data[spots[i]].n
                     /\ last.page[i].d = data[spots[i]].d

\* A home page served to a logged-in user with the second catalog spot
\* reserved and the first one free.
C24_Witness ==
    /\ last.op = "home" /\ session # None
    /\ spots[2] \in DOMAIN data /\ spots[1] \notin DOMAIN data
    /\ last.page[2].reserved /\ ~last.page[1].reserved


Match(u, p) ==
    u \in DOMAIN users /\ users[u] = p

\* C26.  Login establishes a session iff the credentials match: a login
\* with matching credentials makes its user the session user, a login with
\* others establishes none (the session is as it was), and this is so after
\* any number of failed attempts.
C26_LoginIffMatch ==
    [][last'.op = "login"
       => /\ last'.resp = 302
          /\ session' = IF Match(last'.name, last'.date)
                        THEN last'.name ELSE session]_vars

\* A login with matching credentials has been served and its user is the
\* session user.
C26_Witness ==
    /\ last.op = "login" /\ last.name = "user" /\ last.date = "pass"
    /\ session = "user"

\* C27.  After logout the session has no user, whatever it held before, and
\* it has none until a login with matching credentials is served.
C27_LogoutClears ==
    [][/\ last'.op = "logout" => session' = None
       /\ (session = None /\ session' # None)
          => (last'.op = "login" /\ Match(last'.name, last'.date))]_vars

\* A logout has been served and the session has no user.
C27_Witness ==
    /\ last.op = "logout" /\ last.resp = 302 /\ session = None


\* C28.  Appending to the list get_parking_spots returned does not change
\* the configured catalog: every later call returns the spots of CONFIG as
\* configured.
C28_ReturnedListIsACopy ==
    utl.call = "get_parking_spots" => utl.ret = CONFIG.spots

\* C29.  log_action raises no exception to its caller when log.txt cannot
\* be opened.
C29_LogActionNeverRaises ==
    utl.call = "log_action" => utl.raised = "none"

\* The lines of a text: the runs of characters that end at a line break, and
\* the run after the last line break when there is one.
RECURSIVE SplitLines(_, _)
SplitLines(t, cur) ==
    IF t = <<>> THEN (IF cur = <<>> THEN <<>> ELSE <<cur>>)
    ELSE IF Head(t) = LF THEN <<cur>> \o SplitLines(Tail(t), <<>>)
    ELSE SplitLines(Tail(t), Append(cur, Head(t)))

ReadLines(t) == SplitLines(t, <<>>)

\* The action has no line break in it.
OneLine(action) == \A i \in 1..Len(action) : action[i] # LF

\* C30, as stated.  After the calls log_action(a1), ..., log_action(an) on an
\* empty log, the lines of log.txt are a1, ..., an in that order.
C30_LogHoldsTheActions ==
    ReadLines(utl.txt) = utl.calls

\* C30, amended.  A log_action call that returns, with an action that has no
\* line break, adds that action as one line after the lines log.txt held and
\* leaves those unchanged; after calls whose actions all have no line break,
\* the lines of log.txt are those actions in call order.
C30_AppendsInCallOrder ==
    [][(utl'.call = "log_action" /\ utl'.raised = "none"
        /\ Len(utl'.calls) = Len(utl.calls) + 1)
       => /\ OneLine(utl'.calls[Len(utl'.calls)])
             => ReadLines(utl'.txt) =
                    Append(ReadLines(utl.txt), utl'.calls[Len(utl'.calls)])
          /\ (\A i \in 1..Len(utl'.calls) : OneLine(utl'.calls[i]))
             => ReadLines(utl'.txt) = utl'.calls]_vars

\* Two calls with different one-line actions have returned and log.txt holds
\* the two lines in call order.
C30_Witness ==
    /\ Len(utl.calls) = 2 /\ utl.calls = << <<"b">>, <<"a">> >>
    /\ ReadLines(utl.txt) = utl.calls
    /\ utl.call = "log_action" /\ utl.raised = "none"


\* C31.  The map is loaded from the store only at initialization: no request
\* handler replaces it with the contents of the store.  home and admin leave
\* the map as it is, and add, book and delete apply their change to the map
\* the process held when the request came in.
C31_NoReloadWhileServing ==
    [][/\ (last'.op \in {"home", "admin"} /\ last'.resp = 200)
          => data' = data
       /\ (last'.op \in Bookings /\ last'.resp = 302)
          => data' = Assign(data, last'.spot, last'.name, last'.date)
       /\ (last'.op = "delete" /\ last'.resp = 302)
          => data' = Del(data, last'.spot)]_vars


\* C32.  The backup never runs ahead of the primary store: whenever the
\* backup file is written, the write of the primary store of the same request
\* has succeeded, so the store then holds every reservation of the backup.
C32_BackupAfterCommit ==
    [][(backup' # backup /\ backup'.st = "json")
       => /\ last'.fault = "ok"
          /\ file'.st = "json"
          /\ \A s \in DOMAIN backup'.obj :
                s \in DOMAIN file'.obj /\ file'.obj[s] = backup'.obj[s]]_vars


\* C33.  With one request at a time and no storage failure, once an add, a
\* book or a delete has returned, the contents of the primary store equal
\* the map.
C33_StoreEqualsMap ==
    (last.op \in Mutators /\ last.resp = 302)
        => (file.st = "json" /\ file.obj = data)


\* C34.  A release changes only its own spot: after a delete of s whose
\* write of the store succeeds, every catalog spot t # s is reserved exactly
\* when it was before, with the same reservation, in the map and in the store;
\* also when s was not reserved or is not a catalog spot.
C34_DeleteFrame ==
    [][(last'.op = "delete" /\ last'.resp = 302 /\ last'.fault = "ok")
       => \A t \in Catalog \ {last'.spot} :
            /\ t \in DOMAIN data' <=> t \in DOMAIN data
            /\ t \in DOMAIN data => data'[t] = data[t]
            /\ file'.st = "json"
            /\ t \in DOMAIN file'.obj <=> t \in DOMAIN data
            /\ t \in DOMAIN data => file'.obj[t] = data[t]]_vars


\* C35.  Read-only requests never write storage: home, admin, debug, login
\* and logout leave the primary store, the backup and the audit log as they
\* were.
C35_ReadOnlyRequests ==
    [][last'.op \in {"home", "admin", "debug", "login", "logout"}
       => UNCHANGED <<file, backup, log>>]_vars

\* A home page served with reservations in the store, the backup and the log
\* written before it.
C35_Witness ==
    /\ last.op = "home" /\ last.resp = 200
    /\ file.st = "json" /\ file.obj # EmptyMap
    /\ backup.st = "json" /\ Len(log) > 0

\* C36.  A failed login does not alter an existing session: when the
\* session holds a user and a login with credentials that do not match is
\* served, the session user is the same afterwards.
C36_FailedLoginKeepsSession ==
    [][(last'.op = "login" /\ session # None
        /\ ~Match(last'.name, last'.date))
       => session' = session]_vars

\* A login with credentials that do not match has been served to a session
\* that holds a user.
C36_Witness ==
    /\ last.op = "login" /\ ~Match(last.name, last.date)
    /\ session = "admin" /\ last.name = "user"


\* C37.  Within save_backup the audit-log append comes after a backup write
\* that succeeded: a call whose backup write fails appends no record, and
\* every record appended goes with a backup file written in full by the same
\* call, so the records never outnumber the successful backup writes.
C37_LogAfterBackupWrite ==
    [][/\ (last'.op = "add" /\ last'.bfault \in {"open", "write"})
          => log' = log
       /\ Len(log') > Len(log)
          => /\ Len(log') = Len(log) + 1
             /\ last'.op = "add" /\ last'.bfault = "ok"
             /\ backup' = Json(Dump(data'))]_vars

\* An add whose backup write failed after truncating the file has been
\* served, and the log holds only the record of an earlier add.
C37_Witness ==
    /\ last.op = "add" /\ last.bfault = "write" /\ backup.st = "torn"
    /\ Len(log) = 1


\* The map a ledger request r leaves when served on the map d and the store
\* f, and the store it leaves: functions of d, f and r alone.
MapAfter(d, f, r) ==
    IF r.op \in Bookings
    THEN Assign(LoadData(d, f), r.spot, r.name, r.date)
    ELSE Del(LoadData(d, f), r.spot)

StoreAfter(d, f, r) == SaveData(MapAfter(d, f, r), f, r.fault)

=============================================================================
